---------------------------- MODULE Spec2Model ----------------------------
(***************************************************************************)
(* Model of the variant normalization, change-detection and annotation     *)
(* core of clinvar-api-upload: check_input.py (allele normalization,       *)
(* duplicate removal, cleaning), check_for_updates.py (compare_variants,   *)
(* compare_haplotypes), annotate_data.py (get_id, annotate_file), main.py  *)
(* (submit_variants) and the order in which main.py runs them.             *)
(*                                                                         *)
(* Conventions of the model                                                *)
(*  - a tab-separated row is a record; the column "hgvs c." is the field   *)
(*    hgvs_c, "Ref/Alt" is RefAlt, "Last Edited" is LastEdited,            *)
(*    "#Chromosome" is Chromosome, "Gene Names" is GeneNames;              *)
(*  - a comma-separated column (hgvs c., Gene Names) is the sequence of    *)
(*    its comma-separated segments, the empty column being << >>; the      *)
(*    column Ref/Alt is the sequence of its "/"-separated alleles and an   *)
(*    allele is the sequence of its characters;                            *)
(*  - Start and Stop are decimal strings in the files; the model keeps the *)
(*    integer they denote;                                                 *)
(*  - Last Edited is an ISO date string compared with <= on strings; the   *)
(*    model keeps a day number, which orders the same way.                 *)
(***************************************************************************)
EXTENDS Integers, Sequences, FiniteSets, TLC

VARIABLES
    new_file,         \* rows of the cleaned input file given to compare_variants
    old_file,         \* rows of the reference file given to compare_variants
    date_of_upload,   \* the date_of_upload argument
    new_entries,      \* compare_variants: list read from new_file (rows mutated in place)
    old_entries,      \* compare_variants: list read from old_file
    variants_update,  \* compare_variants: list of variants to update
    variants_upload,  \* compare_variants: list of variants to upload as novel
                      \* (both lists hold references to the dictionaries of
                      \* new_entries: a reference is the position in new_entries)
    idx,              \* compare_variants: number of new entries already handled
    input_variant,    \* check_variant: the variant as it was passed in
    the_variant,      \* check_variant: its argument variant, rewritten in place
    first_result,     \* the variant as the first check_variant left it
    input_rows,       \* rows of the export file given to clean_data
    variants_reader,  \* clean_data: the rows remove_duplicate_rows returned
    output_file,      \* rows of the cleaned file (after its header)
    triple_variants,  \* clean_data: rows with three alleles
    multiple_hgvs,    \* clean_data: rows with several hgvs c. and no merge directive
    haplotypes_dict,  \* clean_data: <<haplotype hgvs c., variant>> in insertion order
    output_file_haplo,\* rows of the haplotype file, or None
    scan_i,           \* clean_data: number of rows the current loop has handled
    separated,        \* clean_data: what separate_variants did with the last row
                      \* given to it (<< >> before its first call)
    reference_file,   \* annotate_file: rows of the reference file
    input_file,       \* annotate_file: rows of the input file
    input_has_scv,    \* annotate_file: "SCV" is a column of the input file
    summary,          \* the submissions of the summary reports, in reading order
    date_string,      \* annotate_file: the date_string argument
    annotation,       \* annotate_file: the dictionary ID -> {SCV, Last Edited}
    all_rows,         \* annotate_file: the rows collected for the output file
    annotated_file,   \* rows of the file annotate_file writes, or None
    sub_i,            \* number of submissions folded into annotation
    row_i,            \* annotate_file: number of input rows handled
    invocation,       \* number of the run of the pipeline on the export
    new_haplos,       \* compare_haplotypes: the dictionary haplotype hgvs c. ->
                      \* directive fields and last edited date, in insertion order
    old_haplos,       \* compare_haplotypes: rows of the reference haplotype file
    haplos_novel,     \* compare_haplotypes: dictionary of the novel haplotypes
    haplos_update,    \* compare_haplotypes: dictionary of the haplotypes to update
    haplo_i,          \* compare_haplotypes: number of new haplotypes handled
    variants_list,    \* submit_variants: the formatted variants to submit
    batch_size,       \* submit_variants: args.batch_size
    responses,        \* submit_variants: the responses to the batches posted
    summaries_list,   \* submit_variants: report entries of the accepted batches
    summaries_file,   \* lines of temp/<variant_type>_summaries_list_<status>.txt
    count,            \* submit_variants: number of responses handled
    pc                \* position of the run

diffVars == <<new_file, old_file, date_of_upload, new_entries, old_entries,
              variants_update, variants_upload, idx>>

normVars == <<input_variant, the_variant, first_result>>

cleanVars == <<input_rows, variants_reader, output_file, triple_variants,
               multiple_hgvs, haplotypes_dict, output_file_haplo, scan_i,
               separated>>

annotVars == <<reference_file, input_file, input_has_scv, summary, date_string,
               annotation, all_rows, annotated_file, sub_i, row_i, invocation>>

haploVars == <<new_haplos, old_haplos, haplos_novel, haplos_update, haplo_i>>

submitVars == <<variants_list, batch_size, responses, summaries_list,
                summaries_file, count>>

vars == <<diffVars, normVars, cleanVars, annotVars, haploVars, submitVars, pc>>

-----------------------------------------------------------------------------
(* Bounds of the model *)

MaxNew == 1     \* most rows in the new file of a compare_variants run
MaxOld == 2     \* most rows in the reference file of a compare_variants run
MaxAllele == 3  \* most bases in an allele given to the normalization
MaxRows == 3    \* most rows in the file given to remove_duplicate_rows alone
MaxCleanRows == 2  \* most rows in the export file of a clean_data run

-----------------------------------------------------------------------------
(* Rows *)

SnvRefAlt == << <<"A">>, <<"G">> >>

Hgvs1 == <<"NM_1:c.1A>G">>

Dates == {1, 2}
UploadDates == {3}

\* a row whose Gene Names are genes and whose Notes are notes
FullRow(chrom, start, stop, refalt, hgvs, genes, notes, edited, scv) ==
    [Chromosome |-> chrom, Start |-> start, Stop |-> stop, RefAlt |-> refalt,
     hgvs_c |-> hgvs, GeneNames |-> genes, Notes |-> notes,
     LastEdited |-> edited, SCV |-> scv]

\* a row of one gene, with empty Notes
Row(chrom, start, stop, refalt, hgvs, edited, scv) ==
    FullRow(chrom, start, stop, refalt, hgvs, <<"GENE1">>, << >>, edited, scv)

\* rows of a new (cleaned) file: no accession yet
NewRows ==
    { Row("1", s, s, SnvRefAlt, h, d, "") :
        s \in {100}, h \in {<< >>, Hgvs1}, d \in Dates }

\* rows of a reference file: SCV and Last Edited always present
OldRows ==
    { Row("1", s, s, SnvRefAlt, h, d, a) :
        s \in {100, 200}, h \in {<< >>, Hgvs1}, d \in Dates,
        a \in {"", "SCV01", "SCV02"} }

SeqsUpTo(S, lo, hi) == UNION { [1..n -> S] : n \in lo..hi }

-----------------------------------------------------------------------------
(* check_for_updates.py *)

\* the tab-joined coordinate string of a row: equal strings iff equal tuples
variant_coords(v) == <<v.Chromosome, v.Start, v.Stop, v.RefAlt>>

\* VariantsMatch without the test that the hgvs c. is not empty
VariantsMatch_EmptyHgvs(new_variant, old_variant) ==
    \/ new_variant.hgvs_c = old_variant.hgvs_c
    \/ variant_coords(new_variant) = variant_coords(old_variant)

\* the test of line 59-61: hgvs c. equal and not empty, or coordinates equal
VariantsMatch(new_variant, old_variant) ==
    \/ (new_variant.hgvs_c = old_variant.hgvs_c /\ old_variant.hgvs_c # << >>)
    \/ variant_coords(new_variant) = variant_coords(old_variant)

\* OnMatch that does not copy the SCV of the old variant
OnMatch_NoCarry(new_variant, old_variant, date) ==
    IF new_variant.LastEdited <= old_variant.LastEdited
    THEN [to_update |-> FALSE, up_to_date |-> TRUE, variant |-> new_variant]
    ELSE IF old_variant.SCV = ""
         THEN [to_update |-> FALSE, up_to_date |-> FALSE, variant |-> new_variant]
         ELSE [to_update |-> TRUE, up_to_date |-> FALSE,
               variant |-> [new_variant EXCEPT !.LastEdited = date]]

\* OnMatch that compares the dates with < instead of <=
OnMatch_Strict(new_variant, old_variant, date) ==
    IF new_variant.LastEdited < old_variant.LastEdited
    THEN [to_update |-> FALSE, up_to_date |-> TRUE, variant |-> new_variant]
    ELSE IF old_variant.SCV = ""
         THEN [to_update |-> FALSE, up_to_date |-> FALSE, variant |-> new_variant]
         ELSE [to_update |-> TRUE, up_to_date |-> FALSE,
               variant |-> [new_variant EXCEPT !.SCV = old_variant.SCV,
                                               !.LastEdited = date]]

\* OnMatch that leaves a variant whose old SCV is missing out of both lists
OnMatch_SkipNoSCV(new_variant, old_variant, date) ==
    IF new_variant.LastEdited <= old_variant.LastEdited
    THEN [to_update |-> FALSE, up_to_date |-> TRUE, variant |-> new_variant]
    ELSE IF old_variant.SCV = ""
         THEN [to_update |-> FALSE, up_to_date |-> TRUE, variant |-> new_variant]
         ELSE [to_update |-> TRUE, up_to_date |-> FALSE,
               variant |-> [new_variant EXCEPT !.SCV = old_variant.SCV,
                                               !.LastEdited = date]]

\* OnMatch that tests the missing SCV before the dates
OnMatch_SCVFirst(new_variant, old_variant, date) ==
    IF old_variant.SCV = ""
    THEN [to_update |-> FALSE, up_to_date |-> FALSE, variant |-> new_variant]
    ELSE IF new_variant.LastEdited <= old_variant.LastEdited
         THEN [to_update |-> FALSE, up_to_date |-> TRUE, variant |-> new_variant]
         ELSE [to_update |-> TRUE, up_to_date |-> FALSE,
               variant |-> [new_variant EXCEPT !.SCV = old_variant.SCV,
                                               !.LastEdited = date]]

\* the body run for the first matching old_variant (lines 62-71)
OnMatch(new_variant, old_variant, date) ==
    IF new_variant.LastEdited <= old_variant.LastEdited
    THEN [to_update |-> FALSE, up_to_date |-> TRUE, variant |-> new_variant]
    ELSE IF old_variant.SCV = ""
         THEN [to_update |-> FALSE, up_to_date |-> FALSE, variant |-> new_variant]
         ELSE [to_update |-> TRUE, up_to_date |-> FALSE,
               variant |-> [new_variant EXCEPT !.SCV = old_variant.SCV,
                                               !.LastEdited = date]]

\* ScanOld in which the last matching old_variant decides instead of the first
RECURSIVE ScanOld_LastMatch(_, _, _, _)
ScanOld_LastMatch(new_variant, olds, j, date) ==
    IF j > Len(olds)
    THEN [to_update |-> FALSE, up_to_date |-> FALSE, variant |-> new_variant]
    ELSE IF /\ VariantsMatch(new_variant, olds[j])
            /\ \A m \in (j + 1)..Len(olds) : ~VariantsMatch(new_variant, olds[m])
         THEN OnMatch(new_variant, olds[j], date)
         ELSE ScanOld_LastMatch(new_variant, olds, j + 1, date)

\* the inner loop over old_entries from position j (lines 48-71)
RECURSIVE ScanOld(_, _, _, _)
ScanOld(new_variant, olds, j, date) ==
    IF j > Len(olds)
    THEN [to_update |-> FALSE, up_to_date |-> FALSE, variant |-> new_variant]
    ELSE IF VariantsMatch(new_variant, olds[j])
         THEN OnMatch(new_variant, olds[j], date)
         ELSE ScanOld(new_variant, olds, j + 1, date)

\* read_file of both files (lines 35-38)
ReadFiles ==
    /\ pc = "compare"
    /\ new_entries' = new_file
    /\ old_entries' = old_file
    /\ variants_update' = << >>
    /\ variants_upload' = << >>
    /\ idx' = 0
    /\ pc' = "loop"
    /\ UNCHANGED <<new_file, old_file, date_of_upload, normVars, cleanVars,
                   annotVars,
                   haploVars, submitVars>>

\* CompareStep that enters a variant to update in the novel list as well
CompareStep_NovelAlso ==
    /\ pc = "loop"
    /\ idx < Len(new_entries)
    /\ LET r == ScanOld(new_entries[idx + 1], old_entries, 1, date_of_upload) IN
        /\ new_entries' = [new_entries EXCEPT ![idx + 1] = r.variant]
        /\ variants_update' = IF r.to_update THEN Append(variants_update, idx + 1)
                              ELSE variants_update
        /\ variants_upload' = IF ~r.up_to_date
                              THEN Append(variants_upload, idx + 1)
                              ELSE variants_upload
    /\ idx' = idx + 1
    /\ UNCHANGED <<new_file, old_file, date_of_upload, old_entries, normVars,
                   cleanVars, pc, annotVars, haploVars, submitVars>>

\* one iteration of the outer loop (lines 39-73)
CompareStep ==
    /\ pc = "loop"
    /\ idx < Len(new_entries)
    /\ LET r == ScanOld(new_entries[idx + 1], old_entries, 1, date_of_upload) IN
        /\ new_entries' = [new_entries EXCEPT ![idx + 1] = r.variant]
        /\ variants_update' = IF r.to_update THEN Append(variants_update, idx + 1)
                              ELSE variants_update
        /\ variants_upload' = IF ~r.to_update /\ ~r.up_to_date
                              THEN Append(variants_upload, idx + 1)
                              ELSE variants_upload
    /\ idx' = idx + 1
    /\ UNCHANGED <<new_file, old_file, date_of_upload, old_entries, normVars,
                   cleanVars, pc,
                   annotVars,
                   haploVars, submitVars>>

\* the return of line 74
CompareReturn ==
    /\ pc = "loop"
    /\ idx = Len(new_entries)
    /\ pc' = "done"
    /\ UNCHANGED <<diffVars, normVars, cleanVars,
                   annotVars,
                   haploVars, submitVars>>

\* compare_variants not yet called
DiffNotStarted ==
    /\ new_entries = << >>
    /\ old_entries = << >>
    /\ variants_update = << >>
    /\ variants_upload = << >>
    /\ idx = 0

\* no check_variant in progress
NormIdle ==
    /\ input_variant = << >>
    /\ the_variant = << >>
    /\ first_result = << >>

\* no clean_data in progress
None == "None"
CleanNotStarted ==
    /\ variants_reader = << >>
    /\ output_file = << >>
    /\ triple_variants = << >>
    /\ multiple_hgvs = << >>
    /\ haplotypes_dict = << >>
    /\ output_file_haplo = None
    /\ scan_i = 0
    /\ separated = << >>

\* annotate_file not yet called
AnnotIdle ==
    /\ reference_file = << >>
    /\ input_file = << >>
    /\ input_has_scv = FALSE
    /\ summary = << >>
    /\ date_string = 0
    /\ annotation = << >>
    /\ all_rows = << >>
    /\ annotated_file = None
    /\ sub_i = 0
    /\ row_i = 0
    /\ invocation = 1

\* compare_haplotypes not yet called
HaploIdle ==
    /\ new_haplos = << >>
    /\ old_haplos = << >>
    /\ haplos_novel = << >>
    /\ haplos_update = << >>
    /\ haplo_i = 0

\* submit_variants not yet called
SubmitIdle ==
    /\ variants_list = << >>
    /\ batch_size = 1
    /\ responses = << >>
    /\ summaries_list = << >>
    /\ summaries_file = << >>
    /\ count = 0

InitDiff ==
    /\ new_file \in SeqsUpTo(NewRows, 1, MaxNew)
    /\ old_file \in SeqsUpTo(OldRows, 0, MaxOld)
    /\ date_of_upload \in UploadDates
    /\ DiffNotStarted
    /\ NormIdle
    /\ input_rows = << >>
    /\ CleanNotStarted
    /\ HaploIdle
    /\ SubmitIdle
    /\ AnnotIdle
    /\ pc = "compare"

NextDiff == ReadFiles \/ CompareStep \/ CompareReturn

SpecDiff == InitDiff /\ [][NextDiff]_vars

-----------------------------------------------------------------------------
(* Python strings: indexing and slicing *)

Min(a, b) == IF a < b THEN a ELSE b
Max(a, b) == IF a > b THEN a ELSE b
Abs(n) == IF n < 0 THEN -n ELSE n

\* s[i] raises IndexError unless -len(s) <= i < len(s)
IndexOk(s, i) == -Len(s) <= i /\ i < Len(s)
\* s[i], for a valid i
At(s, i) == IF i >= 0 THEN s[i + 1] ELSE s[Len(s) + i + 1]
\* the position a slice bound denotes, clamped to 0..len(s)
Clamp(s, k) == IF k < 0 THEN Max(Len(s) + k, 0) ELSE Min(k, Len(s))
\* s[:k]
UpTo(s, k) == SubSeq(s, 1, Clamp(s, k))
\* s[k:]
From(s, k) == SubSeq(s, Clamp(s, k) + 1, Len(s))

-----------------------------------------------------------------------------
(* check_input.py: correct_format and the normalization of check_variant *)

Dash == <<"-">>

\* a raised IndexError / ValueError
Raised == [err |-> TRUE, ref |-> << >>, alt |-> << >>, start |-> 0, stop |-> 0]
Returned(ref, alt, start, stop) ==
    [err |-> FALSE, ref |-> ref, alt |-> alt, start |-> start, stop |-> stop]

\* the while loop of lines 48-55: the cursor it ends with and the flag subset
RECURSIVE ScanAlleles(_, _, _, _)
ScanAlleles(ref, alt, cursor, step) ==
    IF Abs(cursor) < Len(ref) /\ Abs(cursor) < Len(alt)
    THEN IF At(ref, cursor) # At(alt, cursor)
         THEN [cursor |-> cursor, subset |-> TRUE]
         ELSE ScanAlleles(ref, alt, cursor + step, step)
    ELSE [cursor |-> cursor, subset |-> FALSE]

\* lines 93-117: the cursor went through the whole of ref
WholeRef(ref, alt, start, stop, cursor) ==
    IF ~(IndexOk(ref, cursor) /\ IndexOk(alt, cursor)) THEN Raised
    ELSE IF At(ref, cursor) # At(alt, cursor) /\ cursor < 0
    THEN Returned(<<At(ref, 0)>>,
                  IF cursor = -1 THEN alt ELSE UpTo(alt, cursor + 1),
                  start, stop + cursor + 1)
    ELSE IF cursor < 0
    THEN Returned(Dash, UpTo(alt, cursor), start,
                  IF cursor = -1 THEN stop ELSE stop + cursor)
    ELSE Returned(Dash, From(alt, cursor), start + cursor, stop)

\* lines 119-136: the cursor went through the whole of alt
WholeAlt(ref, alt, start, stop, cursor) ==
    IF ~(IndexOk(ref, cursor) /\ IndexOk(alt, cursor)) THEN Raised
    ELSE IF At(ref, cursor) # At(alt, cursor)
    THEN IF cursor > 0
         THEN IF IndexOk(alt, -1)
              THEN Returned(From(ref, cursor), <<At(alt, -1)>>, start + cursor, stop)
              ELSE Raised
         ELSE IF IndexOk(alt, 0)
              THEN Returned(UpTo(ref, cursor + 1), <<At(alt, 0)>>, start, stop + cursor)
              ELSE Raised
    ELSE IF cursor > 0
         THEN Returned(From(ref, cursor), Dash, start + cursor, stop)
         ELSE Returned(UpTo(ref, cursor), Dash, start, stop + cursor)

\* correct_format (lines 31-137)
RECURSIVE correct_format(_, _, _, _, _, _)
correct_format(ref, alt, start, stop, cursor0, step) ==
    LET scan == ScanAlleles(ref, alt, cursor0, step)
        cursor == scan.cursor
        subset == scan.subset
    IN
    IF subset /\ cursor < -1
    THEN LET ref2 == UpTo(ref, cursor + 1)
             alt2 == UpTo(alt, cursor + 1)
             stop2 == stop + cursor + 1
         IN IF ~(IndexOk(ref2, 0) /\ IndexOk(alt2, 0)) THEN Raised
            ELSE IF At(ref2, 0) = At(alt2, 0)
                 THEN correct_format(ref2, alt2, start, stop2, 0, 1)
                 ELSE Returned(ref2, alt2, start, stop2)
    ELSE IF subset /\ cursor > 0
    THEN Returned(From(ref, cursor), From(alt, cursor), start + cursor, stop)
    ELSE IF Abs(cursor) > Len(ref)
    THEN IF cursor > 0
         THEN Returned(Dash, From(alt, cursor), start + cursor, stop)
         ELSE Returned(Dash, UpTo(alt, cursor + 1), start, stop + cursor + 1)
    ELSE IF Abs(cursor) > Len(alt)
    THEN IF cursor > 0
         THEN Returned(From(ref, cursor), Dash, start + cursor, stop)
         ELSE Returned(UpTo(ref, cursor + 1), Dash, start, stop + cursor + 1)
    ELSE IF Abs(cursor) = Len(ref)
    THEN WholeRef(ref, alt, start, stop, cursor)
    ELSE IF Abs(cursor) = Len(alt)
    THEN WholeAlt(ref, alt, start, stop, cursor)
    ELSE Returned(ref, alt, start, stop)

\* the guard of check_variant (lines 151-155)
NeedsFormat(ref, alt) ==
    /\ ~(alt # Dash /\ ref = Dash)
    /\ ~(ref # Dash /\ alt = Dash)
    /\ ~(Len(ref) = 1 /\ Len(alt) = 1)

\* lines 150-171 of check_variant: the Ref/Alt, Start, Stop and hgvs c. it leaves
\* in the variant, or the exception it raises
NormalizeVariant(variant) ==
    IF Len(variant.RefAlt) # 2 THEN [err |-> TRUE, variant |-> variant]
    ELSE
    LET ref == variant.RefAlt[1]
        alt == variant.RefAlt[2]
        Put(r) == IF r.err THEN [err |-> TRUE, variant |-> variant]
                  ELSE [err |-> FALSE,
                        variant |-> [variant EXCEPT !.RefAlt = <<r.ref, r.alt>>,
                                                    !.Start = r.start,
                                                    !.Stop = r.stop,
                                                    !.hgvs_c = << >>]]
    IN
    IF NeedsFormat(ref, alt)
    THEN IF ~(IndexOk(ref, -1) /\ IndexOk(alt, -1))
         THEN [err |-> TRUE, variant |-> variant]
         ELSE IF At(ref, -1) = At(alt, -1)
         THEN Put(correct_format(ref, alt, variant.Start, variant.Stop, -1, -1))
         ELSE IF At(ref, 0) = At(alt, 0)
         THEN Put(correct_format(ref, alt, variant.Start, variant.Stop, 0, 1))
         ELSE [err |-> FALSE, variant |-> variant]
    ELSE [err |-> FALSE, variant |-> variant]

-----------------------------------------------------------------------------
(* The normalization of check_variant, applied to a variant and then to its    *)
(* own result                                                                  *)

Bases == {"A", "C", "G", "T"}
Alleles == SeqsUpTo(Bases, 1, MaxAllele)

\* variants of two non-empty alleles; Stop is the last base of ref, or the
\* base after it
NormVariants ==
    { Row("1", 100, 100 + Len(r) - 1 + d, <<r, a>>, Hgvs1, 1, "") :
        r \in Alleles, a \in Alleles, d \in {0, 1} }
    \cup { Row("1", 1000, 1001, << <<"A">>, <<"A", "G">> >>, << >>, 1, "") }

\* check_variant lines 150-171 on the variant as passed in
NormalizeFirst ==
    /\ pc = "normalize"
    /\ LET n == NormalizeVariant(the_variant) IN
        /\ the_variant' = n.variant
        /\ first_result' = n.variant
        /\ pc' = IF n.err THEN "raised" ELSE "normalized"
    /\ UNCHANGED <<input_variant, diffVars, cleanVars,
                   annotVars,
                   haploVars, submitVars>>

\* check_variant lines 150-171 on the variant it has rewritten
NormalizeAgain ==
    /\ pc = "normalized"
    /\ LET n == NormalizeVariant(the_variant) IN
        /\ the_variant' = n.variant
        /\ pc' = IF n.err THEN "raised again" ELSE "renormalized"
    /\ UNCHANGED <<input_variant, first_result, diffVars, cleanVars,
                   annotVars,
                   haploVars, submitVars>>

InitNorm ==
    /\ input_variant \in NormVariants
    /\ the_variant = input_variant
    /\ first_result = << >>
    /\ new_file = << >>
    /\ old_file = << >>
    /\ date_of_upload \in UploadDates
    /\ DiffNotStarted
    /\ input_rows = << >>
    /\ CleanNotStarted
    /\ HaploIdle
    /\ SubmitIdle
    /\ AnnotIdle
    /\ pc = "normalize"

NextNorm == NormalizeFirst \/ NormalizeAgain

SpecNorm == InitNorm /\ [][NextNorm]_vars

-----------------------------------------------------------------------------
(* check_input.py: remove_duplicate_rows *)

\* the key of line 243 with the coordinates left out
DedupKey_HgvsOnly(row) == <<row.hgvs_c>>

\* the key of line 243: (hgvs c., '<->'-joined chromosome, start, stop, ref/alt)
DedupKey(row) ==
    <<row.hgvs_c, <<row.Chromosome, row.Start, row.Stop, row.RefAlt>> >>

\* the loop of lines 242-248 from row i on; seen holds the keys counted so far
\* (seen[key] > 1 exactly when the key was counted before)
RECURSIVE UniqueFrom(_, _, _)
UniqueFrom(rows, i, seen) ==
    IF i > Len(rows) THEN << >>
    ELSE IF DedupKey(rows[i]) \in seen
         THEN UniqueFrom(rows, i + 1, seen)
         ELSE <<rows[i]>> \o UniqueFrom(rows, i + 1, seen \cup {DedupKey(rows[i])})

\* remove_duplicate_rows that keeps the last row of each key instead of the first
remove_duplicate_rows_KeepLast(rows) ==
    LET last == { i \in 1..Len(rows) :
                    \A j \in (i + 1)..Len(rows) : DedupKey(rows[j]) # DedupKey(rows[i]) }
        nth(k) == CHOOSE i \in last : Cardinality({ j \in last : j <= i }) = k
    IN [k \in 1..Cardinality(last) |-> rows[nth(k)]]

\* the unique_rows that remove_duplicate_rows returns (lines 222-252)
remove_duplicate_rows(rows) == UniqueFrom(rows, 1, {})

\* clean_data line 274-284: the duplicates are removed and the cleaned file is
\* opened for writing
RemoveDuplicateRows ==
    /\ pc = "clean"
    /\ variants_reader' = remove_duplicate_rows(input_rows)
    /\ output_file' = << >>
    /\ triple_variants' = << >>
    /\ multiple_hgvs' = << >>
    /\ haplotypes_dict' = << >>
    /\ scan_i' = 0
    /\ pc' = "scan"
    /\ UNCHANGED <<input_rows, output_file_haplo, diffVars, normVars,
                   separated, annotVars,
                   haploVars, submitVars>>

\* rows given to remove_duplicate_rows: with and without hgvs c., at two places,
\* edited at two dates
DedupRows ==
    { Row("1", st, st, SnvRefAlt, h, d, "") :
        st \in {100, 200}, h \in {<< >>, Hgvs1}, d \in Dates }

InitDedup ==
    /\ input_rows \in SeqsUpTo(DedupRows, 0, MaxRows)
    /\ CleanNotStarted
    /\ HaploIdle
    /\ SubmitIdle
    /\ new_file = << >>
    /\ old_file = << >>
    /\ date_of_upload \in UploadDates
    /\ DiffNotStarted
    /\ NormIdle
    /\ AnnotIdle
    /\ pc = "clean"

NextDedup == RemoveDuplicateRows

SpecDedup == InitDedup /\ [][NextDedup]_vars

-----------------------------------------------------------------------------
(* check_input.py: separate_variants, check_variant, extract_variants and      *)
(* clean_data                                                                  *)
(*                                                                             *)
(* The Notes of a row are the sequence of the "; "-separated fields of their   *)
(* merge directive [MERGE:...], and << >> when they hold no directive.         *)

\* the hgvs c. segments of the model that start with "NM"
StartsWithNM(seg) == seg \in {"NM_1:c.1A>G", "NM_3:c.9A>T"}

\* str.replace("&gt;", ">") on the directive fields of the model
ReplaceGt(field) ==
    IF field = "NM_5:c.[1A&gt;G;2C&gt;T]" THEN "NM_5:c.[1A>G;2C>T]" ELSE field

\* separate_variants (lines 6-28): v1, v2, or the ValueError of line 23
separate_variants(two_variants) ==
    LET alleles == two_variants.RefAlt
        v1 == [two_variants EXCEPT !.RefAlt = SubSeq(alleles, 1, Min(2, Len(alleles)))]
        v2 == [two_variants EXCEPT
                 !.RefAlt = [k \in 1..((Len(alleles) + 1) \div 2) |-> alleles[2 * k - 1]]]
    IN IF Len(two_variants.hgvs_c) > 1
       THEN IF Len(two_variants.hgvs_c) = 2
            THEN [err |-> FALSE,
                  v1 |-> [v1 EXCEPT !.hgvs_c = <<two_variants.hgvs_c[1]>>],
                  v2 |-> [v2 EXCEPT !.hgvs_c = <<two_variants.hgvs_c[2]>>]]
            ELSE [err |-> TRUE, v1 |-> v1, v2 |-> v2]
       ELSE [err |-> FALSE, v1 |-> v1, v2 |-> [v2 EXCEPT !.hgvs_c = << >>]]

\* check_variant lines 172-193: no row of the file has the hgvs c. of the
\* variant (when it has one) or its coordinates
NotInFile(checked, file) ==
    \A k \in 1..Len(file) :
        /\ ~(checked.hgvs_c # << >> /\ checked.hgvs_c = file[k].hgvs_c)
        /\ variant_coords(checked) # variant_coords(file[k])

\* extract_variants (lines 196-219) from entry i on: the single variant, None
\* when no hgvs c. starts with NM, or the IndexError of genes_list[i]
RECURSIVE ExtractFrom(_, _)
ExtractFrom(multi, i) ==
    IF i > Len(multi.hgvs_c) THEN [err |-> FALSE, none |-> TRUE, variant |-> multi]
    ELSE IF ~StartsWithNM(multi.hgvs_c[i]) THEN ExtractFrom(multi, i + 1)
    ELSE IF i > Len(multi.GeneNames)
         THEN [err |-> TRUE, none |-> FALSE, variant |-> multi]
         ELSE [err |-> FALSE, none |-> FALSE,
               variant |-> [multi EXCEPT !.hgvs_c = <<multi.hgvs_c[i]>>,
                                         !.GeneNames = <<multi.GeneNames[i]>>]]

extract_variants(multi) == ExtractFrom(multi, 1)

\* the keys of haplotypes_dict
HaploKeys == { haplotypes_dict[k][1] : k \in 1..Len(haplotypes_dict) }

\* one iteration of the loop of lines 285-303
CleanStep ==
    /\ pc = "scan"
    /\ scan_i < Len(variants_reader)
    /\ LET v == variants_reader[scan_i + 1]
           merge_info_mod == [k \in 1..Len(v.Notes) |-> ReplaceGt(v.Notes[k])]
       IN
       IF Len(v.RefAlt) = 3
       THEN /\ triple_variants' = Append(triple_variants, v)
            /\ pc' = pc
            /\ UNCHANGED <<multiple_hgvs, haplotypes_dict, output_file>>
       ELSE IF Len(v.hgvs_c) > 1
       THEN /\ multiple_hgvs' = IF v.Notes = << >> THEN Append(multiple_hgvs, v)
                                ELSE multiple_hgvs
            /\ pc' = pc
            /\ UNCHANGED <<triple_variants, haplotypes_dict, output_file>>
       ELSE IF v.Notes # << >>
       THEN IF Len(merge_info_mod) # 5
            THEN /\ pc' = "aborted"
                 /\ UNCHANGED <<triple_variants, multiple_hgvs, haplotypes_dict,
                                output_file>>
            ELSE /\ haplotypes_dict' =
                        IF merge_info_mod[2] \notin HaploKeys
                        THEN Append(haplotypes_dict, <<merge_info_mod[2], v>>)
                        ELSE haplotypes_dict
                 /\ output_file' = IF merge_info_mod[5] = "individual-merged"
                                   THEN Append(output_file, v)
                                   ELSE output_file
                 /\ pc' = pc
                 /\ UNCHANGED <<triple_variants, multiple_hgvs>>
       ELSE /\ output_file' = Append(output_file, v)
            /\ pc' = pc
            /\ UNCHANGED <<triple_variants, multiple_hgvs, haplotypes_dict>>
    /\ scan_i' = scan_i + 1
    /\ UNCHANGED <<input_rows, variants_reader, output_file_haplo, diffVars,
                   normVars,
                   separated, annotVars,
                   haploVars, submitVars>>

\* the rows csv writerows puts in the file before it meets a None
RECURSIVE WrittenBeforeNone(_, _)
WrittenBeforeNone(extracted, i) ==
    IF i > Len(extracted) \/ extracted[i].none THEN << >>
    ELSE <<extracted[i].variant>> \o WrittenBeforeNone(extracted, i + 1)

\* lines 304-317: the single variants of the rows with several hgvs c. are
\* appended to the cleaned file
AppendMultiHgvs ==
    /\ pc = "scan"
    /\ scan_i = Len(variants_reader)
    /\ LET extracted == [k \in 1..Len(multiple_hgvs) |-> extract_variants(multiple_hgvs[k])]
           Idx == 1..Len(multiple_hgvs)
       IN
       IF \E k \in Idx : extracted[k].err
       THEN \* extract_variants raised in the loop of lines 307-309
            /\ pc' = "aborted"
            /\ output_file' = output_file
       ELSE \* writerows raises on the first None, after the rows before it
            /\ output_file' = output_file \o WrittenBeforeNone(extracted, 1)
            /\ pc' = IF \E k \in Idx : extracted[k].none THEN "aborted" ELSE "triples"
    /\ scan_i' = 0
    /\ UNCHANGED <<input_rows, variants_reader, triple_variants, multiple_hgvs,
                   haplotypes_dict, output_file_haplo, diffVars, normVars,
                   separated, annotVars,
                   haploVars, submitVars>>

\* one iteration of the loop of lines 320-337
TripleStep ==
    /\ pc = "triples"
    /\ scan_i < Len(triple_variants)
    /\ LET sep == separate_variants(triple_variants[scan_i + 1])
           n1 == NormalizeVariant(sep.v1)
           file1 == IF ~n1.err /\ NotInFile(n1.variant, output_file)
                    THEN Append(output_file, n1.variant)
                    ELSE output_file
           n2 == NormalizeVariant(sep.v2)
           file2 == IF ~n2.err /\ NotInFile(n2.variant, file1)
                    THEN Append(file1, n2.variant)
                    ELSE file1
       IN
       /\ separated' = sep
       /\ IF sep.err \/ n1.err
          THEN /\ pc' = "aborted"
               /\ output_file' = output_file
          ELSE /\ pc' = IF n2.err THEN "aborted" ELSE pc
               /\ output_file' = file2
    /\ scan_i' = scan_i + 1
    /\ UNCHANGED <<input_rows, variants_reader, triple_variants, multiple_hgvs,
                   haplotypes_dict, output_file_haplo, diffVars, normVars,
                   annotVars,
                   haploVars, submitVars>>

\* the row of the haplotype file written for one entry of haplotypes_dict
\* (lines 349-361)
HaploRow(entry) ==
    LET merge_info_mod == [k \in 1..Len(entry[2].Notes) |-> ReplaceGt(entry[2].Notes[k])]
    IN [hgvs_c |-> entry[1],
        Classification |-> merge_info_mod[4],
        Notes |-> entry[2].Notes,
        hgvs_p |-> merge_info_mod[3],
        GeneNames |-> entry[2].GeneNames,
        LastEdited |-> entry[2].LastEdited]

\* lines 339-363: the haplotype file is written, or its path is None, and
\* clean_data returns
WriteHaplotypes ==
    /\ pc = "triples"
    /\ scan_i = Len(triple_variants)
    /\ output_file_haplo' =
        IF haplotypes_dict = << >> THEN None
        ELSE [k \in 1..Len(haplotypes_dict) |-> HaploRow(haplotypes_dict[k])]
    /\ pc' = "cleaned"
    /\ UNCHANGED <<input_rows, variants_reader, output_file, triple_variants,
                   multiple_hgvs, haplotypes_dict, scan_i, diffVars, normVars,
                   separated, annotVars,
                   haploVars, submitVars>>

\* main.py lines 228-232: compare_variants is called on the cleaned file
StartCompare ==
    /\ pc = "cleaned"
    /\ new_file' = output_file
    /\ pc' = "compare"
    /\ UNCHANGED <<old_file, date_of_upload, new_entries, old_entries,
                   variants_update, variants_upload, idx, cleanVars, normVars,
                   annotVars,
                   haploVars, submitVars>>

TriRefAlt == << <<"A">>, <<"G">>, <<"T">> >>
TriIndelRefAlt == << <<"A">>, <<"G", "A">>, <<"T">> >>
HgvsNR == "NR_9:n.7A>G"
MergeNotes(upload_type) ==
    <<"NM_1:c.1A>G,NM_3:c.9A>T", "NM_5:c.[1A&gt;G;2C&gt;T]", "p.(Lys1Arg)", "Pathogenic",
      upload_type>>

\* rows of an export file: ordinary rows, rows with several hgvs c., rows with
\* three alleles (and one, two or three hgvs c.) and rows with a merge directive
CleanRows ==
    { Row("1", st, st, SnvRefAlt, h, 1, "") : st \in {100, 200}, h \in {<< >>, Hgvs1} }
    \cup { FullRow("1", 100, 100, SnvRefAlt, <<HgvsNR, Hgvs1[1]>>, <<"GENE9", "GENE1">>,
                   << >>, 1, ""),
           FullRow("1", 200, 200, SnvRefAlt, <<HgvsNR, "NR_8:n.2C>T">>, <<"GENE9", "GENE8">>,
                   << >>, 1, ""),
           Row("1", 100, 100, TriRefAlt, Hgvs1, 1, ""),
           Row("1", 300, 300, TriIndelRefAlt, <<"NM_3:c.9A>T", Hgvs1[1]>>, 1, ""),
           Row("1", 600, 600, TriRefAlt, <<"NM_3:c.9A>T", Hgvs1[1], HgvsNR>>, 1, ""),
           FullRow("1", 100, 100, SnvRefAlt, Hgvs1, <<"GENE1">>,
                   MergeNotes("individual-merged"), 1, ""),
           FullRow("1", 400, 400, SnvRefAlt, <<"NM_3:c.9A>T">>, <<"GENE3">>,
                   MergeNotes("haplotype"), 2, ""),
           FullRow("1", 400, 400, SnvRefAlt, <<"NM_3:c.9A>T", HgvsNR>>, <<"GENE3", "GENE9">>,
                   MergeNotes("haplotype"), 1, ""),
           FullRow("1", 400, 400, SnvRefAlt, <<"NM_3:c.9A>T", HgvsNR>>, <<"GENE3", "GENE9">>,
                   MergeNotes("individual-merged"), 1, ""),
           FullRow("1", 500, 500, SnvRefAlt, << >>, <<"GENE1">>,
                   <<"NM_1:c.1A>G", "individual-merged">>, 1, "") }

\* rows of the reference file of a run that cleans and compares
CleanOldRows ==
    { Row("1", 100, 100, SnvRefAlt, h, d, a) :
        h \in {<< >>, Hgvs1}, d \in {1}, a \in {"", "SCV01"} }

InitClean ==
    /\ input_rows \in SeqsUpTo(CleanRows, 1, MaxCleanRows)
    /\ CleanNotStarted
    /\ HaploIdle
    /\ SubmitIdle
    /\ new_file = << >>
    /\ old_file \in SeqsUpTo(CleanOldRows, 0, 1)
    /\ date_of_upload \in UploadDates
    /\ DiffNotStarted
    /\ NormIdle
    /\ AnnotIdle
    /\ pc = "clean"

NextClean ==
    \/ RemoveDuplicateRows
    \/ CleanStep
    \/ AppendMultiHgvs
    \/ TripleStep
    \/ WriteHaplotypes
    \/ StartCompare
    \/ ReadFiles
    \/ CompareStep
    \/ CompareReturn

SpecClean == InitClean /\ [][NextClean]_vars

-----------------------------------------------------------------------------
(* annotate_data.py: the identity of a row *)

\* "-" in <allele string>
HasDash(allele) == \E k \in 1..Len(allele) : allele[k] = "-"

\* get_id: Chr.<chromosome>_<start+1>_<stop>_<ref>_<alt>[_Insertion|_Deletion];
\* the "_"-joined string is kept as the record of its parts
get_id(variant) ==
    [Chromosome |-> variant.Chromosome,
     Start |-> variant.Start + 1,
     Stop |-> variant.Stop,
     ref |-> variant.RefAlt[1],
     alt |-> variant.RefAlt[2],
     suffix |-> IF HasDash(variant.RefAlt[1]) THEN "Insertion"
                ELSE IF HasDash(variant.RefAlt[2]) THEN "Deletion"
                ELSE ""]

\* An ID (a key of the annotation dictionary, the clinvarLocalKey of a
\* submission up to its first "|") is a string. The model keeps
\*   [hgvs |-> s,  ins |-> << >>, pos |-> << >>]  for the hgvs c. segment s,
\*   [hgvs |-> s,  ins |-> q,     pos |-> << >>]  for the segment s with its
\*                                                "(n)" replaced by the bases q,
\*   [hgvs |-> "", ins |-> << >>, pos |-> <<g>>]  for the string get_id built
\*                                                from the parts g;
\* an hgvs c. never reads as the string of get_id.
HgvsID(seg) == [hgvs |-> seg, ins |-> << >>, pos |-> << >>]

\* the hgvs c. segments of the model that hold a parenthesized repeat length:
\* the segments re.search(r"\(\d+\)", ...) matches, and those with a "("
HasRepeatLength(seg) == seg \in {"NM_7:c.5GT(3)"}

\* helper_functions.py line 7
BASE_PAIRS == [b \in Bases |-> CASE b = "A" -> "T" [] b = "C" -> "G"
                                 [] b = "G" -> "C" [] b = "T" -> "A"]

\* get_reverse_strand (helper_functions.py lines 13-24)
get_reverse_strand(sequence) ==
    [k \in 1..Len(sequence) |-> BASE_PAIRS[sequence[Len(sequence) + 1 - k]]]

\* fix_hgvs (helper_functions.py lines 89-112) of a single segment: its
\* parenthesized part replaced by the reverse strand of alt, and the empty
\* string when it has no "("
fix_hgvs(hgvs, alt) ==
    IF HasRepeatLength(hgvs)
    THEN [hgvs |-> hgvs, ins |-> get_reverse_strand(alt), pos |-> << >>]
    ELSE HgvsID("")

\* the ID of a row as annotate_from_ref computes it (lines 113-118): the first
\* comma-segment of hgvs c., repaired by fix_hgvs when it holds a repeat length,
\* and the string of get_id when the column is empty
IdentityKey(variant) ==
    IF Len(variant.hgvs_c) > 0
    THEN IF HasRepeatLength(variant.hgvs_c[1])
         THEN fix_hgvs(variant.hgvs_c[1], variant.RefAlt[2])
         ELSE HgvsID(variant.hgvs_c[1])
    ELSE [hgvs |-> "", ins |-> << >>, pos |-> <<get_id(variant)>>]

-----------------------------------------------------------------------------
(* annotate_data.py: annotate_from_ref, get_new_annotation and annotate_file *)

\* dict[key] = value
Put(dict, key, value) ==
    [k \in DOMAIN dict \cup {key} |-> IF k = key THEN value ELSE dict[k]]

\* the loop of lines 112-120 from row i on
RECURSIVE SeedFrom(_, _, _)
SeedFrom(file, i, partial_annotation) ==
    IF i > Len(file) THEN partial_annotation
    ELSE SeedFrom(file, i + 1,
                  Put(partial_annotation, IdentityKey(file[i]),
                      [SCV |-> file[i].SCV, LastEdited |-> file[i].LastEdited]))

\* annotate_from_ref (lines 100-122)
annotate_from_ref(file) == SeedFrom(file, 1, << >>)

\* A submission of a summary report: its clinvarLocalKey up to the first "|",
\* its clinvarAccession (None when the report has none for it) and the
\* whitespace-separated words of errors[0].output.errors[0].userMessage
Submission(key, accession, message) ==
    [localKey |-> key, clinvarAccession |-> accession, userMessage |-> message]

\* the words of "This record is submitted as novel but" (line 88)
NovelButPrefix == <<"This", "record", "is", "submitted", "as", "novel", "but">>

\* the message of the archive for a record it already holds under the accession scv
NovelButMessage(scv) ==
    NovelButPrefix \o
    <<"it", "should", "be", "submitted", "as", "an", "update,", "including",
      "the", "SCV", "accession,", "because", "your", "organization",
      "previously", "submitted", scv, "for", "the", "same", "variant", "and",
      "condition.">>

\* the message of another error
OtherMessage == <<"The", "identifier", "cannot", "be", "validated.">>

\* str.startswith, on the words
StartsWith(message, prefix) ==
    Len(message) >= Len(prefix) /\ SubSeq(message, 1, Len(prefix)) = prefix

\* FoldSubmission that reads the accession one word too early (message[22])
FoldSubmission_WordBefore(submission, annotation_dict, date) ==
    IF submission.clinvarAccession # None
    THEN [err |-> FALSE,
          dict |-> Put(annotation_dict, submission.localKey,
                       [SCV |-> submission.clinvarAccession, LastEdited |-> date])]
    ELSE IF StartsWith(submission.userMessage, NovelButPrefix)
    THEN IF Len(submission.userMessage) < 23
         THEN [err |-> TRUE, dict |-> annotation_dict]
         ELSE [err |-> FALSE,
               dict |-> Put(annotation_dict, submission.localKey,
                            [SCV |-> submission.userMessage[23], LastEdited |-> date])]
    ELSE [err |-> FALSE, dict |-> annotation_dict]

\* the body of the loop of get_new_annotation for one submission (lines 78-96):
\* the dictionary it leaves, or the IndexError of message[23]
FoldSubmission(submission, annotation_dict, date) ==
    IF submission.clinvarAccession # None
    THEN [err |-> FALSE,
          dict |-> Put(annotation_dict, submission.localKey,
                       [SCV |-> submission.clinvarAccession, LastEdited |-> date])]
    ELSE IF StartsWith(submission.userMessage, NovelButPrefix)
    THEN IF Len(submission.userMessage) < 24
         THEN [err |-> TRUE, dict |-> annotation_dict]
         ELSE [err |-> FALSE,
               dict |-> Put(annotation_dict, submission.localKey,
                            [SCV |-> submission.userMessage[24], LastEdited |-> date])]
    ELSE [err |-> FALSE, dict |-> annotation_dict]

\* the row with the SCV and Last Edited of an entry of the dictionary
Annotated(row, entry) ==
    [row EXCEPT !.SCV = entry.SCV, !.LastEdited = entry.LastEdited]

\* the body of the loop of annotate_file for one row (lines 202-216): the row it
\* appends to all_rows, or the KeyError of annotation[hgvs_field]
AnnotateOne(row, annotation_dict) ==
    IF Len(row.hgvs_c) > 0
    THEN LET hgvs_field == HgvsID(row.hgvs_c[1])
             hgvs_field_new == IF HasRepeatLength(row.hgvs_c[1])
                               THEN fix_hgvs(row.hgvs_c[1], row.RefAlt[2])
                               ELSE hgvs_field
         IN IF hgvs_field \in DOMAIN annotation_dict
               \/ hgvs_field_new \in DOMAIN annotation_dict
            THEN IF hgvs_field \in DOMAIN annotation_dict
                 THEN [err |-> FALSE,
                       row |-> [Annotated(row, annotation_dict[hgvs_field])
                                  EXCEPT !.hgvs_c = <<row.hgvs_c[1]>>]]
                 ELSE [err |-> TRUE, row |-> row]
            ELSE [err |-> FALSE, row |-> row]
    ELSE LET variant_check == [hgvs |-> "", ins |-> << >>, pos |-> <<get_id(row)>>]
         IN IF variant_check \in DOMAIN annotation_dict
            THEN [err |-> FALSE, row |-> Annotated(row, annotation_dict[variant_check])]
            ELSE [err |-> FALSE, row |-> row]

\* line 186: the dictionary is seeded from the reference file
AnnotateFromRef ==
    /\ pc = "annotate"
    /\ annotation' = annotate_from_ref(reference_file)
    /\ sub_i' = 0
    /\ pc' = "fold"
    /\ UNCHANGED <<reference_file, input_file, input_has_scv, summary, date_string,
                   all_rows, annotated_file, row_i, invocation, diffVars, normVars,
                   cleanVars,
                   haploVars, submitVars>>

\* lines 187-188: one submission of the summary reports is folded into the
\* dictionary (the reports are read one after the other, each from its first
\* submission to its last)
GetNewAnnotation ==
    /\ pc = "fold"
    /\ sub_i < Len(summary)
    /\ LET f == FoldSubmission(summary[sub_i + 1], annotation, date_string) IN
        /\ annotation' = f.dict
        /\ pc' = IF f.err THEN "annotate raised" ELSE pc
    /\ sub_i' = sub_i + 1
    /\ UNCHANGED <<reference_file, input_file, input_has_scv, summary, date_string,
                   all_rows, annotated_file, row_i, invocation, diffVars, normVars,
                   cleanVars,
                   haploVars, submitVars>>

\* lines 189-200, for variant_type "variants": the input file is opened and its
\* header read
ReadInput ==
    /\ pc = "fold"
    /\ sub_i = Len(summary)
    /\ all_rows' = << >>
    /\ row_i' = 0
    /\ pc' = "rows"
    /\ UNCHANGED <<reference_file, input_file, input_has_scv, summary, date_string,
                   annotation, annotated_file, sub_i, invocation, diffVars,
                   normVars, cleanVars,
                   haploVars, submitVars>>

\* one iteration of the loop of lines 201-217
AnnotateRow ==
    /\ pc = "rows"
    /\ row_i < Len(input_file)
    /\ LET a == AnnotateOne(input_file[row_i + 1], annotation) IN
        /\ all_rows' = IF a.err THEN all_rows ELSE Append(all_rows, a.row)
        /\ pc' = IF a.err THEN "annotate raised" ELSE pc
    /\ row_i' = row_i + 1
    /\ UNCHANGED <<reference_file, input_file, input_has_scv, summary, date_string,
                   annotation, annotated_file, sub_i, invocation, diffVars,
                   normVars, cleanVars,
                   haploVars, submitVars>>

\* lines 219-224: the output file is opened for writing; field_names was only
\* assigned when the input file had no SCV column (lines 198-200), so with an SCV
\* column line 221 raises UnboundLocalError and the file stays empty
WriteAnnotated ==
    /\ pc = "rows"
    /\ row_i = Len(input_file)
    /\ annotated_file' = IF input_has_scv THEN << >> ELSE all_rows
    /\ pc' = IF input_has_scv THEN "annotate raised" ELSE "annotated"
    /\ UNCHANGED <<reference_file, input_file, input_has_scv, summary, date_string,
                   annotation, all_rows, sub_i, row_i, invocation, diffVars,
                   normVars, cleanVars,
                   haploVars, submitVars>>

-----------------------------------------------------------------------------
(* annotate_file on an input file, a reference file and summary reports *)

MaxAnnotRows == 2     \* most rows in the input file of an annotate_file run
MaxSubmissions == 2   \* most submissions in the summary reports of a run

RepeatRefAlt == << <<"A">>, <<"G", "T">> >>

\* rows of an input file: with an hgvs c., without one, and with an hgvs c.
\* that holds a repeat length
AnnotRows ==
    { Row("1", 100, 100, SnvRefAlt, Hgvs1, 2, ""),
      Row("1", 200, 200, SnvRefAlt, << >>, 2, ""),
      Row("1", 300, 300, RepeatRefAlt, <<"NM_7:c.5GT(3)">>, 2, "") }

\* rows of a reference file: the same variants, uploaded before
AnnotRefRows ==
    { [r EXCEPT !.LastEdited = 1, !.SCV = "SCV01"] : r \in AnnotRows }

\* the submissions of a report about the rows: accepted, already held by the
\* archive, refused for another reason
AnnotSubmissions ==
    { Submission(IdentityKey(r), "SCV11", << >>) : r \in AnnotRows }
    \cup { Submission(IdentityKey(r), None, NovelButMessage("SCV12")) : r \in AnnotRows }
    \cup { Submission(IdentityKey(r), None, OtherMessage) : r \in AnnotRows }

\* a report names a submitted record once
DistinctKeys(subs) ==
    \A k, m \in 1..Len(subs) : k # m => subs[k].localKey # subs[m].localKey

InitAnnot ==
    /\ reference_file \in SeqsUpTo(AnnotRefRows, 0, 1)
    /\ input_file \in SeqsUpTo(AnnotRows, 1, MaxAnnotRows)
    /\ input_has_scv \in BOOLEAN
    /\ summary \in { subs \in SeqsUpTo(AnnotSubmissions, 0, MaxSubmissions) :
                        DistinctKeys(subs) }
    /\ date_string \in UploadDates
    /\ annotation = << >>
    /\ all_rows = << >>
    /\ annotated_file = None
    /\ sub_i = 0
    /\ row_i = 0
    /\ invocation = 1
    /\ new_file = << >>
    /\ old_file = << >>
    /\ date_of_upload \in UploadDates
    /\ DiffNotStarted
    /\ NormIdle
    /\ input_rows = << >>
    /\ CleanNotStarted
    /\ HaploIdle
    /\ SubmitIdle
    /\ pc = "annotate"

NextAnnot ==
    \/ AnnotateFromRef
    \/ GetNewAnnotation
    \/ ReadInput
    \/ AnnotateRow
    \/ WriteAnnotated

SpecAnnot == InitAnnot /\ [][NextAnnot]_vars

-----------------------------------------------------------------------------
(* The pipeline run on an export, annotated, and run again on the same export *)
(* against the annotated file                                                 *)

MaxCycleRows == 2   \* most rows in the export file of a pipeline run

\* the accession the archive gives to the k-th record of a novel batch
Accessions == <<"SCV11", "SCV12", "SCV13", "SCV14">>

\* main.py lines 234-250 and the archive: the novel variants and then the
\* variants to update are submitted; the summary reports name every submitted
\* record by its ID and say that it was accepted (a novel record under a new
\* accession, an update under the accession sent), that the archive holds it
\* already, or that it was refused for another reason. annotate_data.py is then
\* called on the cleaned file and the reference file (lines 227-247)
Submit ==
    /\ pc = "done"
    /\ invocation = 1
    /\ LET submitted == variants_upload \o variants_update IN
       \E outcome \in [1..Len(submitted) -> {"accepted", "held", "refused"}] :
          summary' =
            [k \in 1..Len(submitted) |->
               LET v == new_entries[submitted[k]] IN
               IF outcome[k] = "accepted"
               THEN Submission(IdentityKey(v),
                               IF k <= Len(variants_upload) THEN Accessions[k]
                               ELSE v.SCV,
                               << >>)
               ELSE IF outcome[k] = "held"
               THEN Submission(IdentityKey(v), None, NovelButMessage("SCV09"))
               ELSE Submission(IdentityKey(v), None, OtherMessage)]
    /\ reference_file' = old_file
    /\ input_file' = new_file
    /\ input_has_scv' = FALSE
    /\ date_string' = date_of_upload
    /\ pc' = "annotate"
    /\ UNCHANGED <<annotation, all_rows, annotated_file, sub_i, row_i, invocation,
                   diffVars, normVars, cleanVars,
                   haploVars, submitVars>>

\* the next invocation: main.py is run on the same export with the file
\* annotate_file wrote as its reference file
NextInvocation ==
    /\ pc = "annotated"
    /\ invocation = 1
    /\ invocation' = 2
    /\ old_file' = annotated_file
    /\ new_file' = << >>
    /\ new_entries' = << >>
    /\ old_entries' = << >>
    /\ variants_update' = << >>
    /\ variants_upload' = << >>
    /\ idx' = 0
    /\ variants_reader' = << >>
    /\ output_file' = << >>
    /\ triple_variants' = << >>
    /\ multiple_hgvs' = << >>
    /\ haplotypes_dict' = << >>
    /\ output_file_haplo' = None
    /\ scan_i' = 0
    /\ separated' = << >>
    /\ pc' = "clean"
    /\ UNCHANGED <<input_rows, date_of_upload, normVars, reference_file, input_file,
                   input_has_scv, summary, date_string, annotation, all_rows,
                   annotated_file, sub_i, row_i,
                   haploVars, submitVars>>

\* rows of an export file: with and without hgvs c., at two places, and a row
\* with three alleles
CycleRows ==
    { Row("1", st, st, SnvRefAlt, h, 2, "") : st \in {100, 200}, h \in {<< >>, Hgvs1} }
    \cup { Row("1", 300, 300, TriRefAlt, Hgvs1, 2, "") }

\* rows of the reference file of the first run
CycleOldRows ==
    { Row("1", 100, 100, SnvRefAlt, h, d, a) :
        h \in {<< >>, Hgvs1}, d \in Dates, a \in {"", "SCV01"} }

InitCycle ==
    /\ input_rows \in SeqsUpTo(CycleRows, 1, MaxCycleRows)
    /\ CleanNotStarted
    /\ HaploIdle
    /\ SubmitIdle
    /\ new_file = << >>
    /\ old_file \in SeqsUpTo(CycleOldRows, 0, 1)
    /\ date_of_upload \in UploadDates
    /\ DiffNotStarted
    /\ NormIdle
    /\ AnnotIdle
    /\ pc = "clean"

NextCycle ==
    \/ RemoveDuplicateRows
    \/ CleanStep
    \/ AppendMultiHgvs
    \/ TripleStep
    \/ WriteHaplotypes
    \/ StartCompare
    \/ ReadFiles
    \/ CompareStep
    \/ CompareReturn
    \/ Submit
    \/ AnnotateFromRef
    \/ GetNewAnnotation
    \/ ReadInput
    \/ AnnotateRow
    \/ WriteAnnotated
    \/ NextInvocation

SpecCycle == InitCycle /\ [][NextCycle]_vars

-----------------------------------------------------------------------------
(* check_for_updates.py: compare_haplotypes *)

MaxNewHaplos == 2   \* most entries of the dictionary new_haplos
MaxOldHaplos == 2   \* most rows of the reference haplotype file

HaploNames == {"NM_5:c.[1A>G;2C>T]", "NM_6:c.[3G>A;4T>C]"}

\* a value of new_haplos: the "; "-separated fields that line 94 unpacks
NewHaplo(hgvs, edited) ==
    <<"NM_1:c.1A>G,NM_3:c.9A>T", hgvs, "p.(Lys1Arg)", "Pathogenic", "haplotype",
      edited>>

\* a row of the reference haplotype file: the six columns that line 97 unpacks,
\* in the order of the file
OldHaplo(hgvs, edited, scv) ==
    [hgvs_c |-> hgvs, Classification |-> "Pathogenic",
     associated |-> "NM_1:c.1A>G,NM_3:c.9A>T", hgvs_p |-> "p.(Lys1Arg)",
     LastEdited |-> edited, SCV |-> scv]

\* the body run for the first matching old_haplo (lines 97-105)
HaploOnMatch(new_haplo_value, old_haplo) ==
    IF new_haplo_value[6] <= old_haplo.LastEdited
    THEN [to_update |-> FALSE, up_to_date |-> TRUE, info |-> new_haplo_value]
    ELSE [to_update |-> TRUE, up_to_date |-> FALSE,
          info |-> Append(new_haplo_value, old_haplo.SCV)]

\* the inner loop over old_haplos from position j (lines 95-105)
RECURSIVE ScanOldHaplos(_, _, _, _)
ScanOldHaplos(new_haplo, new_haplo_value, olds, j) ==
    IF j > Len(olds)
    THEN [to_update |-> FALSE, up_to_date |-> FALSE, info |-> new_haplo_value]
    ELSE IF new_haplo = olds[j].hgvs_c
         THEN HaploOnMatch(new_haplo_value, olds[j])
         ELSE ScanOldHaplos(new_haplo, new_haplo_value, olds, j + 1)

\* lines 88-90: the reference file is read and the two dictionaries are empty
ReadOldHaplos ==
    /\ pc = "haplotypes"
    /\ haplos_novel' = << >>
    /\ haplos_update' = << >>
    /\ haplo_i' = 0
    /\ pc' = "haplo loop"
    /\ UNCHANGED <<new_haplos, old_haplos, diffVars, normVars, cleanVars,
                   annotVars, submitVars>>

\* one iteration of the outer loop (lines 91-107)
CompareHaploStep ==
    /\ pc = "haplo loop"
    /\ haplo_i < Len(new_haplos)
    /\ LET new_haplo == new_haplos[haplo_i + 1][1]
           value == new_haplos[haplo_i + 1][2]
           r == ScanOldHaplos(new_haplo, value, old_haplos, 1)
       IN
        /\ haplos_update' = IF r.to_update THEN Put(haplos_update, new_haplo, r.info)
                            ELSE haplos_update
        /\ haplos_novel' = IF ~r.to_update /\ ~r.up_to_date
                           THEN Put(haplos_novel, new_haplo, value)
                           ELSE haplos_novel
    /\ haplo_i' = haplo_i + 1
    /\ UNCHANGED <<new_haplos, old_haplos, diffVars, normVars, cleanVars,
                   annotVars, submitVars, pc>>

\* the return of line 108
CompareHaploReturn ==
    /\ pc = "haplo loop"
    /\ haplo_i = Len(new_haplos)
    /\ pc' = "haplos compared"
    /\ UNCHANGED <<haploVars, diffVars, normVars, cleanVars, annotVars,
                   submitVars>>

\* the dictionaries new_haplos of the model: one entry for each haplotype hgvs c.
\* of a list of different ones
NewHaploDicts ==
    { [k \in 1..Len(names) |-> <<names[k], NewHaplo(names[k], dates[k])>>] :
        <<names, dates>> \in
            { nd \in SeqsUpTo(HaploNames, 1, MaxNewHaplos)
                        \X SeqsUpTo(Dates, 1, MaxNewHaplos) :
                /\ Len(nd[1]) = Len(nd[2])
                /\ \A a, b \in 1..Len(nd[1]) : a # b => nd[1][a] # nd[1][b] } }

OldHaploRows ==
    { OldHaplo(h, d, a) : h \in HaploNames, d \in Dates, a \in {"", "SCV21"} }

InitHaplo ==
    /\ new_haplos \in NewHaploDicts
    /\ old_haplos \in SeqsUpTo(OldHaploRows, 0, MaxOldHaplos)
    /\ haplos_novel = << >>
    /\ haplos_update = << >>
    /\ haplo_i = 0
    /\ new_file = << >>
    /\ old_file = << >>
    /\ date_of_upload \in UploadDates
    /\ DiffNotStarted
    /\ NormIdle
    /\ input_rows = << >>
    /\ CleanNotStarted
    /\ AnnotIdle
    /\ SubmitIdle
    /\ pc = "haplotypes"

NextHaplo == ReadOldHaplos \/ CompareHaploStep \/ CompareHaploReturn

SpecHaplo == InitHaplo /\ [][NextHaplo]_vars

-----------------------------------------------------------------------------
(* main.py: submit_variants with variant_status novel or update *)

MaxVariants == 3   \* most variants in the list given to submit_variants

BatchSizes == {1, 2}
StatusCodes == {200, 201, 400}

\* the submission ids that the archive gives to the requests of a run, and the
\* one it gave to a request of an earlier run
SubIds == <<"SUB1", "SUB2", "SUB3", "SUB4", "SUB5">>
EarlierSubId == "SUB0"

\* variants_batches (lines 141-144)
RECURSIVE Batches(_, _)
Batches(list, size) ==
    IF list = << >> THEN << >>
    ELSE <<SubSeq(list, 1, Min(size, Len(list)))>>
            \o Batches(SubSeq(list, Min(size, Len(list)) + 1, Len(list)), size)

\* report_json (line 173), for haplo = False
ReportEntry(sub_id) == <<"temp/", sub_id, "-summary-report.json variants">>

\* one iteration of the loop of lines 145-146: a batch is posted and the
\* response of the archive is kept
PostBatch ==
    /\ pc = "post"
    /\ Len(responses) < Len(Batches(variants_list, batch_size))
    /\ \E code \in StatusCodes :
        responses' = Append(responses, [status_code |-> code,
                                         sub_id |-> SubIds[Len(responses) + 1]])
    /\ UNCHANGED <<variants_list, batch_size, summaries_list, summaries_file,
                   count, diffVars, normVars, cleanVars, annotVars, haploVars, pc>>

\* lines 148-151: every batch was posted; summaries_list is empty
AllPosted ==
    /\ pc = "post"
    /\ Len(responses) = Len(Batches(variants_list, batch_size))
    /\ summaries_list' = << >>
    /\ count' = 0
    /\ pc' = "responses"
    /\ UNCHANGED <<variants_list, batch_size, responses, summaries_file,
                   diffVars, normVars, cleanVars, annotVars, haploVars>>

\* one iteration of the loop of lines 153-182: the entry of an accepted batch
\* is added to summaries_list, and then (lines 175-180, inside the loop) the
\* file is opened for appending, or created, and every entry of summaries_list
\* is written to it
HandleResponse ==
    /\ pc = "responses"
    /\ count < Len(responses)
    /\ LET response == responses[count + 1]
           list == IF response.status_code > 201 THEN summaries_list
                   ELSE Append(summaries_list, ReportEntry(response.sub_id))
       IN /\ summaries_list' = list
          /\ summaries_file' = summaries_file \o list
    /\ count' = count + 1
    /\ UNCHANGED <<variants_list, batch_size, responses, diffVars, normVars,
                   cleanVars, annotVars, haploVars, pc>>

\* submit_variants returns
SubmitReturn ==
    /\ pc = "responses"
    /\ count = Len(responses)
    /\ pc' = "submitted"
    /\ UNCHANGED <<submitVars, diffVars, normVars, cleanVars, annotVars,
                   haploVars>>

InitSubmit ==
    /\ variants_list \in { [k \in 1..n |-> k] : n \in 0..MaxVariants }
    /\ batch_size \in BatchSizes
    /\ responses = << >>
    /\ summaries_list = << >>
    /\ summaries_file \in {<< >>, <<ReportEntry(EarlierSubId)>>}
    /\ count = 0
    /\ new_file = << >>
    /\ old_file = << >>
    /\ date_of_upload \in UploadDates
    /\ DiffNotStarted
    /\ NormIdle
    /\ input_rows = << >>
    /\ CleanNotStarted
    /\ AnnotIdle
    /\ HaploIdle
    /\ pc = "post"

NextSubmit == PostBatch \/ AllPosted \/ HandleResponse \/ SubmitReturn

SpecSubmit == InitSubmit /\ [][NextSubmit]_vars

-----------------------------------------------------------------------------
(* Properties of compare_variants, stated on the files it was given *)

Done == pc = "done"

NewIdx == 1..Len(new_file)
OldIdx == 1..Len(old_file)

\* the pair matches: equal non-empty hgvs c., or equal chromosome/start/stop/ref-alt
Matches(n, o) ==
    \/ (n.hgvs_c # << >> /\ n.hgvs_c = o.hgvs_c)
    \/ (n.Chromosome = o.Chromosome /\ n.Start = o.Start /\ n.Stop = o.Stop
        /\ n.RefAlt = o.RefAlt)

\* position in the reference file of the first record matching n, 0 when none does
FirstMatch(n) ==
    IF \E j \in OldIdx : Matches(n, old_file[j])
    THEN CHOOSE j \in OldIdx :
            /\ Matches(n, old_file[j])
            /\ \A k \in 1..(j - 1) : ~Matches(n, old_file[k])
    ELSE 0

\* the i-th new record is in the list of novel variants / of variants to update
InNovel(i) == \E k \in 1..Len(variants_upload) : variants_upload[k] = i
InUpdate(i) == \E k \in 1..Len(variants_update) : variants_update[k] = i
InUpdateWith(i, scv) == InUpdate(i) /\ new_entries[i].SCV = scv

Newer(n, o) == n.LastEdited > o.LastEdited

\* C1 as stated: every matching reference record that is older and has an SCV
\* puts the new record in the update list with that SCV, whatever the other
\* reference records are.
C1_AnyMatchUpdates ==
    Done => \A i \in NewIdx, j \in OldIdx :
        (Matches(new_file[i], old_file[j]) /\ Newer(new_file[i], old_file[j])
            /\ old_file[j].SCV # "")
        => InUpdateWith(i, old_file[j].SCV)

\* C1 amended: when the FIRST matching reference record (in file order) is older
\* than the new record and has a non-empty SCV, the new record is in the update
\* list carrying that record's SCV.
C1_FirstMatchUpdates ==
    Done => \A i \in NewIdx :
        LET j == FirstMatch(new_file[i]) IN
        (j # 0 /\ Newer(new_file[i], old_file[j]) /\ old_file[j].SCV # "")
        => InUpdateWith(i, old_file[j].SCV)

\* C1 witness: an update decided by the first of two matching reference records
\* that carry different SCVs.
C1_Witness ==
    /\ Done
    /\ \E i \in NewIdx, j \in OldIdx, k \in OldIdx :
        /\ j = FirstMatch(new_file[i]) /\ k > j
        /\ Matches(new_file[i], old_file[k])
        /\ Newer(new_file[i], old_file[j])
        /\ old_file[j].SCV # "" /\ old_file[k].SCV # old_file[j].SCV
        /\ InUpdateWith(i, old_file[j].SCV)

\* C2 as stated: every matching reference record that is not older keeps the new
\* record out of both lists, whatever the other reference records are.
C2_AnyMatchUpToDate ==
    Done => \A i \in NewIdx, j \in OldIdx :
        (Matches(new_file[i], old_file[j]) /\ ~Newer(new_file[i], old_file[j]))
        => (~InNovel(i) /\ ~InUpdate(i))

\* C2 amended: when the FIRST matching reference record has a Last Edited that is
\* the same as or later than the new record's, the new record is in neither list.
C2_FirstMatchUpToDate ==
    Done => \A i \in NewIdx :
        LET j == FirstMatch(new_file[i]) IN
        (j # 0 /\ ~Newer(new_file[i], old_file[j]))
        => (~InNovel(i) /\ ~InUpdate(i))

\* C2 witness: a new record kept out of both lists by a first match of the same
\* date, with an older matching record after it.
C2_Witness ==
    /\ Done
    /\ \E i \in NewIdx, j \in OldIdx, k \in OldIdx :
        /\ j = FirstMatch(new_file[i]) /\ k > j
        /\ new_file[i].LastEdited = old_file[j].LastEdited
        /\ Matches(new_file[i], old_file[k]) /\ Newer(new_file[i], old_file[k])
        /\ ~InNovel(i) /\ ~InUpdate(i)

\* C3 as stated: a new record whose Identity Key is the Identity Key of no
\* reference record is in the novel list.
C3_NoIdentityKeyIsNovel ==
    Done => \A i \in NewIdx :
        (\A j \in OldIdx : IdentityKey(new_file[i]) # IdentityKey(old_file[j]))
        => InNovel(i)

\* C3 amended: a new record that no reference record matches (equal non-empty
\* hgvs c., or equal chromosome/start/stop/ref-alt) is in the novel list.
C3_NoMatchIsNovel ==
    Done => \A i \in NewIdx : FirstMatch(new_file[i]) = 0 => InNovel(i)

\* C3 witness: a novel record beside a reference record that has, like it, no
\* hgvs c., at other coordinates.
C3_Witness ==
    /\ Done
    /\ \E i \in NewIdx, j \in OldIdx :
        /\ FirstMatch(new_file[i]) = 0
        /\ new_file[i].hgvs_c = << >> /\ old_file[j].hgvs_c = << >>
        /\ InNovel(i)

\* C4 as stated: when the first matching reference record is older and has an
\* empty SCV, the new record is in neither list.
C4_NoSCVSkipped ==
    Done => \A i \in NewIdx :
        LET j == FirstMatch(new_file[i]) IN
        (j # 0 /\ Newer(new_file[i], old_file[j]) /\ old_file[j].SCV = "")
        => (~InNovel(i) /\ ~InUpdate(i))

\* C4 amended: when the first matching reference record is older and has an
\* empty SCV, the new record is in the novel list, unchanged, and not in the
\* update list.
C4_NoSCVIsNovel ==
    Done => \A i \in NewIdx :
        LET j == FirstMatch(new_file[i]) IN
        (j # 0 /\ Newer(new_file[i], old_file[j]) /\ old_file[j].SCV = "")
        => (InNovel(i) /\ ~InUpdate(i) /\ new_entries[i] = new_file[i])

\* C4 witness: a record uploaded as novel because its only matching reference
\* record is older and has no SCV.
C4_Witness ==
    /\ Done
    /\ Len(old_file) = 1
    /\ \E i \in NewIdx :
        /\ FirstMatch(new_file[i]) = 1
        /\ Newer(new_file[i], old_file[1]) /\ old_file[1].SCV = ""
        /\ InNovel(i)

DecidedBy(n, o) ==
    IF ~Newer(n, o) THEN "neither" ELSE IF o.SCV # "" THEN "update" ELSE "novel"

\* the list that the i-th new record ended in
Classified(i) ==
    IF InUpdate(i) THEN "update" ELSE IF InNovel(i) THEN "novel" ELSE "neither"

\* C24: the first matching reference record alone decides the classification of
\* a new record; when it is older and has an SCV the new record is exactly once
\* in the update list, with that SCV and with the upload date as Last Edited,
\* whatever the later matching reference records are
C24_FirstMatchDecides ==
    Done => \A i \in NewIdx :
        LET j == FirstMatch(new_file[i]) IN
        j # 0 =>
            /\ Classified(i) = DecidedBy(new_file[i], old_file[j])
            /\ DecidedBy(new_file[i], old_file[j]) = "update" =>
                    /\ Cardinality({ k \in 1..Len(variants_update) :
                                        variants_update[k] = i }) = 1
                    /\ ~InNovel(i)
                    /\ new_entries[i].SCV = old_file[j].SCV
                    /\ new_entries[i].LastEdited = date_of_upload

\* C24 witness: an update decided by the first match although a later matching
\* reference record alone would not give an update
C24_Witness ==
    /\ Done
    /\ \E i \in NewIdx, k \in OldIdx :
        LET j == FirstMatch(new_file[i]) IN
        /\ j # 0 /\ k > j
        /\ Matches(new_file[i], old_file[k])
        /\ DecidedBy(new_file[i], old_file[j]) = "update"
        /\ DecidedBy(new_file[i], old_file[k]) # "update"
        /\ Classified(i) = "update"
        /\ new_entries[i].SCV = old_file[j].SCV
        /\ new_entries[i].LastEdited = date_of_upload

\* the number of times the i-th new record is in the list
TimesIn(list, i) == Cardinality({ k \in 1..Len(list) : list[k] = i })

\* the list holds new records, in the order of the new file
InInputOrder(list) ==
    /\ \A k \in 1..Len(list) : list[k] \in 1..Len(new_entries)
    /\ \A k, m \in 1..Len(list) : k < m => list[k] < list[m]

\* C29: when compare_variants returns, every new record is once in the novel
\* list, or once in the update list, or in neither, and never in both; both
\* lists follow the order of the new file; the reference records are as they
\* were read
C29_ListsPartition ==
    Done =>
        /\ \A i \in 1..Len(new_entries) :
              TimesIn(variants_upload, i) + TimesIn(variants_update, i) <= 1
        /\ InInputOrder(variants_upload)
        /\ InInputOrder(variants_update)
        /\ old_entries = old_file

\* C29 witness: a run on several new records that ends with a record in each
\* list
C29_Witness ==
    /\ Done
    /\ Len(new_entries) >= 2
    /\ \E i, k \in 1..Len(new_entries) :
          /\ i # k
          /\ TimesIn(variants_upload, i) = 1 /\ TimesIn(variants_update, i) = 0
          /\ TimesIn(variants_update, k) = 1 /\ TimesIn(variants_upload, k) = 0

-----------------------------------------------------------------------------
(* Properties of the normalization *)

InRef == input_variant.RefAlt[1]
InAlt == input_variant.RefAlt[2]

\* C8: normalizing the result of a normalization returns, and returns the same
\* Ref/Alt, Start and Stop.
C8_Idempotent ==
    /\ pc # "raised again"
    /\ pc = "renormalized" =>
        /\ the_variant.RefAlt = first_result.RefAlt
        /\ the_variant.Start = first_result.Start
        /\ the_variant.Stop = first_result.Stop

\* ref and alt share neither their first nor their last base
NoSharedEnd(ref, alt) ==
    /\ Len(ref) > 0 /\ Len(alt) > 0
    /\ ref[1] # alt[1]
    /\ ref[Len(ref)] # alt[Len(alt)]

\* C9: after the normalization of two alleles that are not both single-base, ref
\* and alt share neither their first nor their last base, unless one of them is
\* the empty marker "-".
C9_Minimal ==
    (pc = "normalized" /\ ~(Len(InRef) = 1 /\ Len(InAlt) = 1)) =>
        \/ the_variant.RefAlt[1] = Dash
        \/ the_variant.RefAlt[2] = Dash
        \/ NoSharedEnd(the_variant.RefAlt[1], the_variant.RefAlt[2])

\* a is a proper prefix / a proper suffix of b
ProperPrefix(a, b) == Len(a) < Len(b) /\ SubSeq(b, 1, Len(a)) = a
ProperSuffix(a, b) == Len(a) < Len(b) /\ SubSeq(b, Len(b) - Len(a) + 1, Len(b)) = a

\* what is left of b once the prefix, or the suffix, a is taken away
Leftovers(a, b) ==
    (IF ProperPrefix(a, b) THEN {SubSeq(b, Len(a) + 1, Len(b))} ELSE {})
    \cup (IF ProperSuffix(a, b) THEN {SubSeq(b, 1, Len(b) - Len(a))} ELSE {})

\* C10: when ref is entirely a prefix or a suffix of alt the normalization yields
\* the insertion -/<leftover of alt>; when alt is entirely a prefix or a suffix
\* of ref it yields the deletion <leftover of ref>/-.
C10_PrefixSuffixIndel ==
    pc \in {"normalized", "raised"} =>
        /\ Leftovers(InRef, InAlt) # {} =>
            /\ pc = "normalized"
            /\ the_variant.RefAlt[1] = Dash
            /\ the_variant.RefAlt[2] \in Leftovers(InRef, InAlt)
        /\ Leftovers(InAlt, InRef) # {} =>
            /\ pc = "normalized"
            /\ the_variant.RefAlt[2] = Dash
            /\ the_variant.RefAlt[1] \in Leftovers(InAlt, InRef)

\* the bases of an allele of the result: none for the empty marker "-"
BasesOf(allele) == IF allele = Dash THEN << >> ELSE allele

\* the pairs <<p, s>> such that taking the p leading and the s trailing bases,
\* which ref and alt share, away from ref and from alt leaves new_ref and new_alt
Trims(ref, alt, new_ref, new_alt) ==
    { ps \in (0..Len(ref)) \X (0..Len(ref)) :
        /\ ps[1] + ps[2] <= Len(ref)
        /\ ps[1] + ps[2] <= Len(alt)
        /\ SubSeq(ref, 1, ps[1]) = SubSeq(alt, 1, ps[1])
        /\ SubSeq(ref, Len(ref) - ps[2] + 1, Len(ref))
              = SubSeq(alt, Len(alt) - ps[2] + 1, Len(alt))
        /\ SubSeq(ref, ps[1] + 1, Len(ref) - ps[2]) = BasesOf(new_ref)
        /\ SubSeq(alt, ps[1] + 1, Len(alt) - ps[2]) = BasesOf(new_alt) }

\* C25: when the normalization rewrites two non-empty alleles, Start has grown
\* by the number of leading bases taken away and Stop has shrunk by the number
\* of trailing bases taken away
C25_CoordinatesFollowTrim ==
    (pc = "normalized" /\ the_variant.RefAlt # input_variant.RefAlt) =>
        \E ps \in Trims(InRef, InAlt, the_variant.RefAlt[1], the_variant.RefAlt[2]) :
            /\ the_variant.Start = input_variant.Start + ps[1]
            /\ the_variant.Stop = input_variant.Stop - ps[2]

\* C28: the normalization of two non-empty alleles over A, C, G, T returns: it
\* raises no index error, also when one allele is a prefix of the other
C28_NormalizationTotal ==
    /\ Len(InRef) > 0 /\ Len(InAlt) > 0
    /\ pc # "raised"

-----------------------------------------------------------------------------
(* The scenario of an insertion after a shared first base *)

\* chromosome 1, Start 1000, Stop 1001, Ref/Alt A/AG, no hgvs c.
ScenarioRow == Row("1", 1000, 1001, << <<"A">>, <<"A", "G">> >>, << >>, 1, "")

\* C11: once check_variant has normalized the scenario row, its ref is "-", its
\* alt is "G", its Start is 1001, and get_id of it is
\* Chr.1_1002_1001_A_G_Insertion
C11_ScenarioIdentity ==
    (input_variant = ScenarioRow /\ pc # "normalize") =>
        /\ pc \in {"normalized", "renormalized", "raised again"}
        /\ first_result.RefAlt = <<Dash, <<"G">> >>
        /\ first_result.Start = 1001
        /\ get_id(first_result) =
               [Chromosome |-> "1", Start |-> 1002, Stop |-> 1001,
                ref |-> <<"A">>, alt |-> <<"G">>, suffix |-> "Insertion"]

-----------------------------------------------------------------------------
(* separate_variants on the rows with three alleles *)

\* the two rows agree on every column but Ref/Alt and hgvs c.
SameOtherFields(a, b) ==
    /\ a.Chromosome = b.Chromosome
    /\ a.Start = b.Start
    /\ a.Stop = b.Stop
    /\ a.GeneNames = b.GeneNames
    /\ a.Notes = b.Notes
    /\ a.LastEdited = b.LastEdited
    /\ a.SCV = b.SCV

\* C12: separate_variants returns for a row a0/a1/a2 two rows a0/a1 and a0/a2;
\* of two hgvs c. the first row gets the first and the second row the second,
\* otherwise the first row keeps the hgvs c. and the second has none; the other
\* columns are those of the row
C12_SplitsInTwo ==
    separated # << >> =>
        LET t == triple_variants[scan_i] IN
        /\ ~separated.err
        /\ separated.v1.RefAlt = <<t.RefAlt[1], t.RefAlt[2]>>
        /\ separated.v2.RefAlt = <<t.RefAlt[1], t.RefAlt[3]>>
        /\ IF Len(t.hgvs_c) = 2
           THEN /\ separated.v1.hgvs_c = <<t.hgvs_c[1]>>
                /\ separated.v2.hgvs_c = <<t.hgvs_c[2]>>
           ELSE /\ separated.v1.hgvs_c = t.hgvs_c
                /\ separated.v2.hgvs_c = << >>
        /\ SameOtherFields(separated.v1, t)
        /\ SameOtherFields(separated.v2, t)

-----------------------------------------------------------------------------
(* Properties of annotate_file *)

AnnotateFinished == pc \in {"annotated", "annotate raised"}

InputIdxA == 1..Len(input_file)
SummaryIdx == 1..Len(summary)

\* C13: a row of the input file whose identity (first hgvs c. segment, repaired
\* when it holds a repeat length, or the positional ID) is the local key of an
\* accepted submission is written with the accession of that submission and the
\* given date
C13_SuccessRoundTrip ==
    AnnotateFinished =>
        \A i \in InputIdxA, k \in SummaryIdx :
            (/\ summary[k].clinvarAccession # None
             /\ summary[k].localKey = IdentityKey(input_file[i])) =>
                /\ pc = "annotated"
                /\ annotated_file[i].SCV = summary[k].clinvarAccession
                /\ annotated_file[i].LastEdited = date_string

\* C17: annotate_file writes every row of the input file once and in order,
\* with an SCV column, whether or not the input file has that column; a row
\* whose identity is no key of the dictionary keeps its Last Edited and has no
\* accession
C17_FullRewrite ==
    AnnotateFinished =>
        /\ pc = "annotated"
        /\ Len(annotated_file) = Len(input_file)
        /\ \A i \in InputIdxA :
              /\ variant_coords(annotated_file[i]) = variant_coords(input_file[i])
              /\ IdentityKey(input_file[i]) \notin DOMAIN annotation =>
                    /\ annotated_file[i].LastEdited = input_file[i].LastEdited
                    /\ annotated_file[i].SCV = ""

\* the dictionary as annotate_from_ref seeded it from the reference file
Seed == annotate_from_ref(reference_file)

\* dict[key] is {SCV: scv, Last Edited: date}
HasEntry(dict, key, scv, date) ==
    key \in DOMAIN dict /\ dict[key] = [SCV |-> scv, LastEdited |-> date]

\* the submission says that the archive holds the record already
Held(submission) ==
    /\ submission.clinvarAccession = None
    /\ StartsWith(submission.userMessage, NovelButPrefix)

\* C16: of the submissions folded so far, an accepted one has its local key
\* mapped to its accession and the given date, one the archive holds already has
\* it mapped to the 24th word of its message and the given date, and one refused
\* otherwise has left the entry of its local key as the reference file seeded
\* it, or absent
C16_ThreeWays ==
    pc \in {"fold", "rows", "annotated", "annotate raised"} =>
        \A k \in 1..sub_i :
            LET e == summary[k] IN
            IF e.clinvarAccession # None
            THEN HasEntry(annotation, e.localKey, e.clinvarAccession, date_string)
            ELSE IF Held(e)
            THEN HasEntry(annotation, e.localKey, e.userMessage[24], date_string)
            ELSE /\ e.localKey \in DOMAIN annotation <=> e.localKey \in DOMAIN Seed
                 /\ e.localKey \in DOMAIN Seed => annotation[e.localKey] = Seed[e.localKey]

\* all submissions are folded; one was held by the archive already and one was
\* refused for a record that the reference file has
C16_Witness ==
    /\ pc = "rows"
    /\ \E k, m \in SummaryIdx :
          /\ Held(summary[k])
          /\ summary[k].userMessage[24] = "SCV12"
          /\ annotation[summary[k].localKey].SCV = "SCV12"
          /\ ~Held(summary[m])
          /\ summary[m].clinvarAccession = None
          /\ summary[m].localKey \in DOMAIN Seed

-----------------------------------------------------------------------------
(* Properties of the pipeline run twice *)

\* the submission says that the record was refused for a reason other than
\* being held by the archive already
Refused(submission) ==
    /\ submission.clinvarAccession = None
    /\ ~StartsWith(submission.userMessage, NovelButPrefix)

\* C14: a record of the cleaned file whose submission was refused and that
\* annotate_file wrote without an accession is, when the pipeline is run again
\* on the same export against the file annotate_file wrote, again in the list
\* of novel variants or in the list of variants to update
C14_FailedReconsidered ==
    (pc = "done" /\ invocation = 2) =>
        \A i \in NewIdx :
            (/\ \E k \in SummaryIdx :
                   /\ Refused(summary[k])
                   /\ summary[k].localKey = IdentityKey(new_file[i])
             /\ annotated_file[i].SCV = "") =>
                InNovel(i) \/ InUpdate(i)

-----------------------------------------------------------------------------
(* The relations between records that the stages of a run use *)

\* the stages of the first run have all acted
AllStagesRan == pc = "annotated"

\* the rows the stages were given: those of the export and of the reference file
StageRows ==
    { input_rows[k] : k \in 1..Len(input_rows) }
    \cup { reference_file[k] : k \in 1..Len(reference_file) }

\* C15 (as stated): two records are duplicates for remove_duplicate_rows, match
\* for compare_variants and have one key in the annotation dictionary in exactly
\* the same cases
C15_SameRelationEverywhere ==
    AllStagesRan =>
        \A a, b \in StageRows :
            /\ (DedupKey(a) = DedupKey(b)) <=> VariantsMatch(a, b)
            /\ VariantsMatch(a, b) <=> (IdentityKey(a) = IdentityKey(b))

\* C15 (amended): two records that are duplicates for remove_duplicate_rows
\* match for compare_variants and have one key in the annotation dictionary
C15_DuplicatesMatchAndShareKey ==
    AllStagesRan =>
        \A a, b \in StageRows :
            DedupKey(a) = DedupKey(b) =>
                /\ VariantsMatch(a, b)
                /\ IdentityKey(a) = IdentityKey(b)

\* two different rows that are duplicates went through the three stages
C15_Witness ==
    /\ AllStagesRan
    /\ \E a, b \in StageRows : a # b /\ DedupKey(a) = DedupKey(b)

-----------------------------------------------------------------------------
(* Properties of remove_duplicate_rows *)

Deduplicated == pc = "scan"

InputIdx == 1..Len(input_rows)

\* the composite key of a row: hgvs c., chromosome, start, stop, ref/alt
CompositeKey(r) == <<r.hgvs_c, r.Chromosome, r.Start, r.Stop, r.RefAlt>>

\* how many of the returned rows have the composite key / the Identity Key of r
KeptWithKey(r) ==
    Cardinality({ k \in 1..Len(variants_reader) :
                    CompositeKey(variants_reader[k]) = CompositeKey(r) })
KeptWithIdentity(r) ==
    Cardinality({ k \in 1..Len(variants_reader) :
                    IdentityKey(variants_reader[k]) = IdentityKey(r) })

\* C7 as stated: of the input records that have one Identity Key, exactly one
\* is kept.
C7_OnePerIdentityKey ==
    Deduplicated => \A i \in InputIdx : KeptWithIdentity(input_rows[i]) = 1

\* C7 amended: of the input records that have one composite key (hgvs c.,
\* chromosome, start, stop, ref/alt) exactly one is kept, and it is the first of
\* them; records whose composite keys differ are kept apart, also when they have
\* the same Identity Key.
C7_OnePerCompositeKey ==
    Deduplicated =>
        /\ \A i \in InputIdx : KeptWithKey(input_rows[i]) = 1
        /\ \A k \in 1..Len(variants_reader) :
            \E i \in InputIdx :
                /\ input_rows[i] = variants_reader[k]
                /\ \A j \in 1..(i - 1) :
                    CompositeKey(input_rows[j]) # CompositeKey(input_rows[i])

\* C7 witness: one of two rows with the same composite key and different dates
\* is dropped, and two rows that have the same hgvs c. at different coordinates
\* are both kept.
C7_Witness ==
    /\ Deduplicated
    /\ \E i \in InputIdx, j \in InputIdx :
        /\ i < j
        /\ CompositeKey(input_rows[i]) = CompositeKey(input_rows[j])
        /\ input_rows[i].LastEdited # input_rows[j].LastEdited
    /\ \E k \in 1..Len(variants_reader), m \in 1..Len(variants_reader) :
        /\ k # m
        /\ IdentityKey(variants_reader[k]) = IdentityKey(variants_reader[m])
    /\ Len(variants_reader) < Len(input_rows)

\* the positions of the input rows whose composite key no earlier row has
FirstOccurrences ==
    { i \in InputIdx :
        \A j \in 1..(i - 1) : CompositeKey(input_rows[j]) # CompositeKey(input_rows[i]) }

\* the k-th of these positions
NthFirstOccurrence(k) ==
    CHOOSE i \in FirstOccurrences : Cardinality({ j \in FirstOccurrences : j <= i }) = k

\* C18: remove_duplicate_rows returns the first row of each composite key in the
\* order of the input: the rows returned are the input rows at the first
\* occurrences, no two of them have one composite key, every composite key of
\* the input is among them, and the number of rows removed (input length minus
\* output length, as line 250 prints it) is the number of rows that repeat the
\* composite key of an earlier row
C18_FirstOccurrencesInOrder ==
    Deduplicated =>
        /\ Len(variants_reader) = Cardinality(FirstOccurrences)
        /\ \A k \in 1..Len(variants_reader) :
              variants_reader[k] = input_rows[NthFirstOccurrence(k)]
        /\ \A k, m \in 1..Len(variants_reader) :
              k # m => CompositeKey(variants_reader[k]) # CompositeKey(variants_reader[m])
        /\ \A i \in InputIdx : \E k \in 1..Len(variants_reader) :
              CompositeKey(variants_reader[k]) = CompositeKey(input_rows[i])
        /\ Len(input_rows) - Len(variants_reader)
              = Cardinality(InputIdx \ FirstOccurrences)

\* the third of three rows repeats the composite key of the first with another
\* date and is removed, the row between them is kept
C18_Witness ==
    /\ Deduplicated
    /\ Len(input_rows) = 3
    /\ CompositeKey(input_rows[1]) = CompositeKey(input_rows[3])
    /\ input_rows[1].LastEdited # input_rows[3].LastEdited
    /\ variants_reader = <<input_rows[1], input_rows[2]>>

-----------------------------------------------------------------------------
(* Properties of clean_data *)

\* the loop of lines 285-303 has handled every row
Scanned == pc = "scan" /\ scan_i = Len(variants_reader)

InSeq(r, rows) == \E k \in 1..Len(rows) : rows[k] = r

\* how clean_data has handled the row r
AsTriAllelic(r) == InSeq(r, triple_variants)
AsMultiHgvs(r) == InSeq(r, multiple_hgvs)
AsHaplotypeMerge(r) ==
    /\ Len(r.Notes) >= 2
    /\ ReplaceGt(r.Notes[2]) \in HaploKeys
AsOrdinary(r) == r.Notes = << >> /\ InSeq(r, output_file)

\* C19: clean_data puts every deduplicated row in exactly one of the classes
\* tri-allelic, multi-HGVS, haplotype-merge and ordinary; a row with a merge
\* directive that has not three alleles is handled as a haplotype-merge row,
\* also when its hgvs c. holds a comma
C19_Partition ==
    Scanned =>
        \A k \in 1..Len(variants_reader) :
            LET r == variants_reader[k] IN
            /\ Cardinality({ c \in 1..4 :
                    \/ c = 1 /\ AsTriAllelic(r)
                    \/ c = 2 /\ AsMultiHgvs(r)
                    \/ c = 3 /\ AsHaplotypeMerge(r)
                    \/ c = 4 /\ AsOrdinary(r) }) = 1
            /\ (r.Notes # << >> /\ Len(r.RefAlt) # 3) => AsHaplotypeMerge(r)

\* lines 306-317 have just run
MultiAppended == scan_i = 0 /\ pc \in {"triples", "aborted"}

\* the row r reduced to its i-th hgvs c. and its i-th gene name
ReducedTo(r, i) ==
    [r EXCEPT !.hgvs_c = <<r.hgvs_c[i]>>, !.GeneNames = <<r.GeneNames[i]>>]

\* C20: for every multi-HGVS row the cleaned file holds exactly one row with the
\* first hgvs c. entry that starts with NM, the gene name at the same index and
\* the other columns of the row
C20_OneRowPerMultiHgvs ==
    MultiAppended =>
        \A k \in 1..Len(multiple_hgvs) :
            LET m == multiple_hgvs[k] IN
            \E i \in 1..Len(m.hgvs_c) :
                /\ StartsWithNM(m.hgvs_c[i])
                /\ \A j \in 1..(i - 1) : ~StartsWithNM(m.hgvs_c[j])
                /\ i <= Len(m.GeneNames)
                /\ Cardinality({ j \in 1..Len(output_file) :
                                    output_file[j] = ReducedTo(m, i) }) = 1

\* C26: when clean_data aborts, the cleaned file of the run holds no row
C26_AllOrNothing ==
    pc = "aborted" => output_file = << >>

-----------------------------------------------------------------------------
(* Properties of clean_data followed by compare_variants *)

\* C6: after clean_data and compare_variants no two records of the novel list
\* have the same Identity Key.
C6_NovelIdentityKeysDistinct ==
    Done => \A k \in 1..Len(variants_upload), m \in 1..Len(variants_upload) :
        k # m => IdentityKey(new_entries[variants_upload[k]])
                    # IdentityKey(new_entries[variants_upload[m]])

-----------------------------------------------------------------------------
(* Properties of the haplotype file *)

Cleaned == pc = "cleaned"

\* the deduplicated rows whose Notes hold a merge directive
DirectiveIdx == { k \in 1..Len(variants_reader) : Len(variants_reader[k].Notes) >= 2 }

\* the haplotype hgvs c. that the directive of a row names
HaplotypeNamed(r) == ReplaceGt(r.Notes[2])

\* the first deduplicated row whose directive names the haplotype h
FirstNaming(h) ==
    variants_reader[CHOOSE k \in DirectiveIdx :
                        /\ HaplotypeNamed(variants_reader[k]) = h
                        /\ \A j \in DirectiveIdx :
                              HaplotypeNamed(variants_reader[j]) = h => k <= j]

\* the haplotype path that clean_data returns is None: the test of line 340
NoHaplotypeFile == haplotypes_dict = << >>

\* C21: when clean_data returns, the haplotype file holds exactly one row for
\* every haplotype hgvs c. that a merge directive names, built from the first
\* row that names it, and the haplotype path is None when no row has a merge
\* directive
C21_OneRecordPerHaplotype ==
    Cleaned =>
        IF DirectiveIdx = {}
        THEN NoHaplotypeFile
        ELSE /\ ~NoHaplotypeFile
             /\ \A d \in DirectiveIdx :
                  LET h == HaplotypeNamed(variants_reader[d])
                      at == { k \in 1..Len(output_file_haplo) :
                                output_file_haplo[k].hgvs_c = h }
                  IN /\ Cardinality(at) = 1
                     /\ \A k \in at :
                          output_file_haplo[k] = HaploRow(<<h, FirstNaming(h)>>)

\* the upload type that the directive of a row gives (its last field)
UploadType(r) == r.Notes[Len(r.Notes)]

\* C22: when clean_data returns, a row with a merge directive and not three
\* alleles is in the cleaned file exactly when the upload type of its directive
\* is individual-merged
C22_WrittenIffIndividualMerged ==
    Cleaned =>
        \A k \in DirectiveIdx :
            LET r == variants_reader[k] IN
            Len(r.RefAlt) # 3 =>
                (InSeq(r, output_file) <=> UploadType(r) = "individual-merged")

-----------------------------------------------------------------------------
(* Properties of compare_haplotypes *)

HaplosCompared == pc = "haplos compared"

\* the position of the first row of old_haplos with the hgvs c. name, or 0
FirstOldHaplo(name) ==
    LET at == { j \in 1..Len(old_haplos) : old_haplos[j].hgvs_c = name }
    IN IF at = {} THEN 0 ELSE CHOOSE j \in at : \A m \in at : j <= m

\* C23: compare_haplotypes classifies as compare_variants does, matching on the
\* haplotype hgvs c. only: no match gives novel; a match not older than the new
\* date gives neither; an older match with an SCV gives update, carrying the
\* SCV; an older match with an empty SCV is never entered in the update
\* dictionary and is novel, as in compare_variants
C23_SameStateMachine ==
    HaplosCompared =>
        \A k \in 1..Len(new_haplos) :
            LET name == new_haplos[k][1]
                value == new_haplos[k][2]
                j == FirstOldHaplo(name)
                novel == name \in DOMAIN haplos_novel
                update == name \in DOMAIN haplos_update
            IN IF j = 0
               THEN novel /\ ~update /\ haplos_novel[name] = value
               ELSE IF value[6] <= old_haplos[j].LastEdited
               THEN ~novel /\ ~update
               ELSE IF old_haplos[j].SCV # ""
               THEN /\ ~novel
                    /\ update
                    /\ haplos_update[name] = Append(value, old_haplos[j].SCV)
               ELSE novel /\ ~update

-----------------------------------------------------------------------------
(* Properties of submit_variants *)

Submitted == pc = "submitted"

\* the number of lines of the listing file that hold the entry
Occurrences(entry) ==
    Cardinality({ k \in 1..Len(summaries_file) : summaries_file[k] = entry })

\* the batches of the run that the archive accepted
Accepted == { k \in 1..Len(responses) : responses[k].status_code <= 201 }

\* C27: when submit_variants returns, the listing file has gained exactly one
\* entry for every batch whose response status is at most 201 and none for the
\* other batches
C27_OneEntryPerAcceptedBatch ==
    Submitted =>
        /\ \A k \in 1..Len(responses) :
              Occurrences(ReportEntry(responses[k].sub_id))
                  = IF k \in Accepted THEN 1 ELSE 0
        /\ Len(summaries_file) - Occurrences(ReportEntry(EarlierSubId))
              = Cardinality(Accepted)

-----------------------------------------------------------------------------
(* Properties of the second run after a successful upload *)

\* the submission of the record was accepted under an accession
AcceptedFor(i) ==
    \E k \in SummaryIdx :
        /\ summary[k].clinvarAccession # None
        /\ summary[k].localKey = IdentityKey(new_file[i])
        /\ annotated_file[i].SCV = summary[k].clinvarAccession

\* C30: a record of the cleaned file whose submission was accepted under its
\* identity and that annotate_file wrote with the accession and the upload date
\* is, when the pipeline is run again on the same export against the file
\* annotate_file wrote, in neither the novel list nor the update list
C30_NotResubmitted ==
    (pc = "done" /\ invocation = 2) =>
        \A i \in NewIdx :
            (/\ AcceptedFor(i)
             /\ annotated_file[i].LastEdited = date_string
             /\ new_file[i].LastEdited <= date_string) =>
                ~InNovel(i) /\ ~InUpdate(i)

=============================================================================
